---- MODULE Spec2Model ----
(***************************************************************************)
(* A model of relibc's buffered stream engine, src/header/stdio/mod.rs:    *)
(* the FILE object (read buffer and cursors, pushback slot, status flags,  *)
(* line-buffered writer, stream lock) and the entry points built on it.    *)
(*                                                                         *)
(* A "world" w is a record [f, p, m, calls]: f is the FILE struct, p the   *)
(* platform's view of the handle FILE.file names (the bytes of the         *)
(* underlying storage and the descriptor's offset), m the state of         *)
(* FILE.lock, calls the collaborator calls the running entry point has     *)
(* issued so far, in order.  Every                                         *)
(* function of the source is an operator from a world to the set of its    *)
(* possible outcomes: the platform decides how many bytes a read returns   *)
(* and whether a call fails.                                               *)
(***************************************************************************)
EXTENDS Integers, Sequences, FiniteSets, TLC

VARIABLES
    stream,   \* the FILE struct (mod.rs:61-77), plus its lifetime state
    sys,      \* the platform's state behind FILE.file
    calls,    \* collaborator calls issued by the last entry point, in order
    last,     \* the last entry point run: its name, arguments and result, and
              \* what the stream held when it was called
    mutex,    \* FILE.lock: TRUE while locked
    pc,       \* per thread: where it is in the entry point it runs
    hold,     \* per thread: it acquired FILE.lock and has not released it
    access    \* the last access to the stream's fields: who, how, lock held

vars == <<stream, sys, calls, last, mutex, pc, hold, access>>

-----------------------------------------------------------------------------
(* Bounds of the model *)

\* Length of the read buffer _fdopen allocates (constants::BUFSIZ, scaled).
BUFSIZ == 2
\* Largest buffer size passed to setvbuf.
MaxBuf == 2
\* Largest number of bytes in the underlying storage.
MaxFile == 3
\* Largest destination capacity passed to fgets.
MaxCap == 3
\* Number of threads sharing the stream.
NThreads == 2
\* Capacity of the writer's buffer of pending bytes (scaled).
WCap == 2
\* Largest descriptor number of a process.
MaxFd == 5

-----------------------------------------------------------------------------
(* Program constants *)

NL == 10                       \* b'\n'
EOF == -1                      \* constants::EOF
DataBytes == {NL, 97}          \* bytes found in files and passed by callers
Threads == 1..NThreads

Min(a, b) == IF a < b THEN a ELSE b

Zeros(n) == [i \in 1..n |-> 0]

\* Option<T>: None is the empty sequence, Some(x) is <<x>>.
None == <<>>
Some(x) == <<x>>

-----------------------------------------------------------------------------
(* The platform (Sys) and the handle *)

Log(w, call) == [w EXCEPT !.calls = Append(@, call)]

\* A failing platform call leaves its error code in the process-wide errno.
Fail(w, code) == [w EXCEPT !.p.errno = code]

\* Sys::read through File::read: at most len bytes from the descriptor's
\* offset; fewer than asked is allowed (a short read), zero only at the end.
SysRead(w, len) ==
    LET size  == Len(w.p.content)
        avail == IF w.p.pos < size THEN size - w.p.pos ELSE 0
        most  == Min(avail, len)
        ns    == IF most = 0 THEN {0} ELSE 1..most
        bad   == [w |-> Fail(Log(w, "read"), "EBADF"),
                  ok |-> FALSE, n |-> 0, data |-> <<>>]
    IN  IF ~w.p.fd_open THEN {bad}
        ELSE { [w    |-> [Log(w, "read") EXCEPT !.p.pos = @ + n],
                ok   |-> TRUE,
                n    |-> n,
                data |-> SubSeq(w.p.content, w.p.pos + 1, w.p.pos + n)]
               : n \in ns } \cup {bad}

\* The storage after writing bytes at offset pos (a gap is filled with zeros).
Overwrite(content, pos, bytes) ==
    LET end == pos + Len(bytes)
        n   == IF end > Len(content) THEN end ELSE Len(content)
    IN  [i \in 1..n |->
            IF i > pos /\ i <= end THEN bytes[i - pos]
            ELSE IF i <= Len(content) THEN content[i]
            ELSE 0]

\* Sys::write of all of bytes at the descriptor's offset, or a failure.
SysWrite(w, bytes) ==
    LET bad == [w |-> Fail(Log(w, "write"), "EBADF"), ok |-> FALSE]
    IN  IF ~w.p.fd_open THEN {bad}
        ELSE { [w  |-> [Log(w, "write") EXCEPT
                          !.p.content = Overwrite(@, w.p.pos, bytes),
                          !.p.pos = @ + Len(bytes)],
                ok |-> TRUE],
               bad }

\* Sys::lseek: the new offset, or a failure (a pipe, a negative offset).
Whences == {"SEEK_SET", "SEEK_CUR", "SEEK_END"}

SeekBase(w, whence) ==
    CASE whence = "SEEK_SET" -> 0
      [] whence = "SEEK_CUR" -> w.p.pos
      [] whence = "SEEK_END" -> Len(w.p.content)

SysLseek(w, off, whence) ==
    IF ~w.p.fd_open THEN [w |-> Fail(Log(w, "lseek"), "EBADF"), r |-> -1]
    ELSE IF ~w.p.seekable THEN [w |-> Fail(Log(w, "lseek"), "ESPIPE"), r |-> -1]
    ELSE IF whence \notin Whences \/ SeekBase(w, whence) + off < 0
    THEN [w |-> Fail(Log(w, "lseek"), "EINVAL"), r |-> -1]
    ELSE [w |-> [Log(w, "lseek") EXCEPT !.p.pos = SeekBase(w, whence) + off],
          r |-> SeekBase(w, whence) + off]

\* Sys::close of the stream's descriptor.  The descriptor is gone afterwards
\* even when the call reports a failure.
SysClose(w) ==
    IF ~w.p.fd_open
    THEN { [w |-> Fail(Log(w, "close"), "EBADF"), r |-> -1] }
    ELSE { [w |-> [Log(w, "close") EXCEPT !.p.fd_open = FALSE], r |-> 0],
           [w |-> Fail([Log(w, "close") EXCEPT !.p.fd_open = FALSE], "EIO"),
            r |-> -1] }

\* fcntl(F_SETFL) on the stream's descriptor.
SysFcntl(w) ==
    IF ~w.p.fd_open
    THEN { [w |-> Fail(Log(w, "fcntl"), "EBADF"), r |-> -1] }
    ELSE { [w |-> Log(w, "fcntl"), r |-> 0],
           [w |-> Fail(Log(w, "fcntl"), "EINVAL"), r |-> -1] }

\* What the stream's descriptor names once a file opened on content is
\* behind it: a regular file at offset 0.
Retarget(w, content) ==
    [w EXCEPT !.p.content = content, !.p.pos = 0,
              !.p.seekable = TRUE, !.p.fd_open = TRUE]

\* Sys::dup2(new, fd): the stream's descriptor names the new file, or fails.
SysDup2(w, content) ==
    { [w |-> Retarget(Log(w, "dup2"), content), r |-> 0],
      [w |-> Fail(Log(w, "dup2"), "EBADF"), r |-> -1] }

-----------------------------------------------------------------------------
(* impl Read / BufRead for FILE *)

\* A slice of the read buffer, buf[from..to].
Slice(buf, from, to) == SubSeq(buf, from + 1, to)

\* A process abort: Rust's bounds check on &read_buf[read_pos..read_size].
Panic(w) == [w EXCEPT !.f.state = "panic"]

\* fill_buf that does not latch the end of the file.
fill_buf_no_eof(w) ==
    LET filled ==
            IF w.f.read_pos = w.f.read_size
            THEN { IF o.ok
                   THEN [w  |-> [o.w EXCEPT
                                   !.f.read_buf =
                                       o.data \o SubSeq(@, o.n + 1, Len(@)),
                                   !.f.read_size = o.n,
                                   !.f.read_pos = 0],
                         ok |-> TRUE]
                   ELSE [w  |-> [o.w EXCEPT !.f.flags = @ \cup {"F_ERR"}],
                         ok |-> FALSE]
                 : o \in SysRead(w, Len(w.f.read_buf)) }
            ELSE { [w |-> w, ok |-> TRUE] }
    IN  { IF ~o.ok
          THEN [w |-> o.w, ok |-> FALSE, buf |-> <<>>]
          ELSE IF o.w.f.read_size > Len(o.w.f.read_buf)
          THEN [w |-> Panic(o.w), ok |-> FALSE, buf |-> <<>>]
          ELSE [w |-> o.w, ok |-> TRUE,
                buf |-> Slice(o.w.f.read_buf, o.w.f.read_pos, o.w.f.read_size)]
        : o \in filled }

fill_buf(w) ==
    LET filled ==
            IF w.f.read_pos = w.f.read_size
            THEN { IF o.ok
                   THEN [w  |-> [o.w EXCEPT
                                   !.f.read_buf =
                                       o.data \o SubSeq(@, o.n + 1, Len(@)),
                                   !.f.flags =
                                       IF o.n = 0 THEN @ \cup {"F_EOF"} ELSE @,
                                   !.f.read_size = o.n,
                                   !.f.read_pos = 0],
                         ok |-> TRUE]
                   ELSE [w  |-> [o.w EXCEPT !.f.flags = @ \cup {"F_ERR"}],
                         ok |-> FALSE]
                 : o \in SysRead(w, Len(w.f.read_buf)) }
            ELSE { [w |-> w, ok |-> TRUE] }
    IN  { IF ~o.ok
          THEN [w |-> o.w, ok |-> FALSE, buf |-> <<>>]
          ELSE IF o.w.f.read_size > Len(o.w.f.read_buf)
          THEN [w |-> Panic(o.w), ok |-> FALSE, buf |-> <<>>]
          ELSE [w |-> o.w, ok |-> TRUE,
                buf |-> Slice(o.w.f.read_buf, o.w.f.read_pos, o.w.f.read_size)]
        : o \in filled }

\* consume that leaves the cursor where it is.
consume_nothing(w, i) == w

consume(w, i) ==
    [w EXCEPT !.f.read_pos = Min(@ + i, w.f.read_size)]

\* read with the pushback byte copied out of the slot but not taken from it.
read_keeps_unget(w, outlen) ==
    IF outlen > 0 /\ w.f.unget # None
    THEN { [w |-> w, ok |-> TRUE, n |-> 1, data |-> <<w.f.unget[1]>>] }
    ELSE { IF ~o.ok
           THEN [w |-> o.w, ok |-> FALSE, n |-> 0, data |-> <<>>]
           ELSE LET len == Min(Len(o.buf), outlen)
                IN  [w |-> consume(o.w, len), ok |-> TRUE, n |-> len,
                     data |-> SubSeq(o.buf, 1, len)]
         : o \in fill_buf(w) }

\* Read::read into a destination of outlen bytes: the bytes stored and Ok(n),
\* or Err.
read(w, outlen) ==
    IF outlen > 0 /\ w.f.unget # None
    THEN { [w |-> [w EXCEPT !.f.unget = None],
            ok |-> TRUE, n |-> 1, data |-> <<w.f.unget[1]>>] }
    ELSE { IF ~o.ok
           THEN [w |-> o.w, ok |-> FALSE, n |-> 0, data |-> <<>>]
           ELSE LET len == Min(Len(o.buf), outlen)
                IN  [w |-> consume(o.w, len), ok |-> TRUE, n |-> len,
                     data |-> SubSeq(o.buf, 1, len)]
         : o \in fill_buf(w) }

-----------------------------------------------------------------------------
(* impl Write for FILE, over the line-buffered writer *)

\* The index of the last newline of bytes, or 0.
LastNL(bytes) ==
    LET at == {i \in 1..Len(bytes) : bytes[i] = NL}
    IN  IF at = {} THEN 0 ELSE CHOOSE i \in at : \A j \in at : j <= i

\* LineWriter::flush: hand every pending byte to the handle.
WriterFlush(w) ==
    LET w1 == Log(w, "flush")
    IN  IF w1.f.writer = <<>>
        THEN { [w |-> w1, ok |-> TRUE] }
        ELSE { IF o.ok
               THEN [w |-> [o.w EXCEPT !.f.writer = <<>>], ok |-> TRUE]
               ELSE [w |-> o.w, ok |-> FALSE]
             : o \in SysWrite(w1, w1.f.writer) }

\* The writer with bytes appended to its pending bytes: a newline sends the
\* pending bytes up to and including it to the handle, and pending bytes that
\* fill the writer's buffer are all sent.
WriterAppend(w, bytes) ==
    LET all == w.f.writer \o bytes
        nl  == LastNL(all)
        k   == IF Len(all) >= WCap THEN Len(all) ELSE nl
    IN  IF k = 0
        THEN { [w |-> [w EXCEPT !.f.writer = all], ok |-> TRUE, n |-> Len(bytes)] }
        ELSE { IF o.ok
               THEN [w  |-> [o.w EXCEPT !.f.writer = SubSeq(all, k + 1, Len(all))],
                     ok |-> TRUE, n |-> Len(bytes)]
               ELSE [w |-> o.w, ok |-> FALSE, n |-> 0]
             : o \in SysWrite(w, SubSeq(all, 1, k)) }

\* LineWriter::write: as io::Write allows, the writer takes all of bytes or
\* only the first n of them, and reports n.
WriterWrite(w, bytes) ==
    IF bytes = <<>> THEN WriterAppend(w, bytes)
    ELSE UNION { WriterAppend(w, SubSeq(bytes, 1, n)) : n \in 1..Len(bytes) }

LatchErr(o) ==
    IF o.ok THEN o ELSE [o EXCEPT !.w.f.flags = @ \cup {"F_ERR"}]

write(w, bytes) == { LatchErr(o) : o \in WriterWrite(w, bytes) }

flush(w) == { LatchErr(o) : o \in WriterFlush(w) }

-----------------------------------------------------------------------------
(* The stream lock: Mutex<()> used through its manual interface *)

\* Mutex::manual_try_lock: Ok exactly when the mutex was free.
manual_try_lock(w) ==
    IF w.m THEN [w |-> w, ok |-> FALSE]
    ELSE [w |-> [Log(w, "lock") EXCEPT !.m = TRUE], ok |-> TRUE]

\* Mutex::manual_unlock
manual_unlock(w) == [Log(w, "unlock") EXCEPT !.m = FALSE]

\* Mutex::manual_lock returns once it has taken the mutex.  A thread that
\* calls it while the mutex is held waits ("waiting"): until the holder
\* unlocks, and for ever when the caller is the holder.
manual_lock(w) ==
    IF w.m THEN [w EXCEPT !.f.state = "waiting"]
    ELSE [Log(w, "lock") EXCEPT !.m = TRUE]

flockfile(w) == manual_lock(w)

funlockfile(w) == manual_unlock(w)

\* ftrylockfile that reports success whether or not it took the mutex.
ftrylockfile_always(w) == [w |-> manual_try_lock(w).w, r |-> 0]

ftrylockfile(w) ==
    LET o == manual_try_lock(w)
    IN  [w |-> o.w, r |-> IF o.ok THEN 0 ELSE 1]

\* FILE::lock that hands out the guard without taking the lock.
lock_without_flockfile(w) == w

\* FILE::lock: take the lock and hand out the guard.
lock(w) == flockfile(w)

\* A guard whose drop releases nothing.
DropGuard_keeps(w) == w

\* Drop for LockGuard
DropGuard(w) == funlockfile(w)

\* An entry point whose body runs between FILE::lock and the guard's drop.
\* Nothing runs after an abort or in a thread that waits for ever.
Dead(w) == w.f.state \in {"panic", "waiting"}

Guarded(w, Body(_)) ==
    LET w1 == lock(w)
    IN  IF Dead(w1) THEN { [w |-> w1, r |-> 0] }
        ELSE { [w |-> IF Dead(o.w) THEN o.w ELSE DropGuard(o.w), r |-> o.r]
               : o \in Body(w1) }

-----------------------------------------------------------------------------
(* Entry points *)

\* c as u8
ToU8(c) == c % 256

getc_unlocked(w) ==
    { [w |-> o.w, r |-> IF ~o.ok \/ o.n = 0 THEN EOF ELSE o.data[1]]
      : o \in read(w, 1) }

fgetc(w) == Guarded(w, getc_unlocked)

\* ungetc that stores the byte whether or not one is pending.
ungetc_overwrites(w, c) ==
    LET Body(w1) == { [w |-> [w1 EXCEPT !.f.unget = Some(ToU8(c))], r |-> c] }
    IN  Guarded(w, Body)

\* ungetc that clears the at-EOF flag when it stores the byte.
ungetc_clears_eof(w, c) ==
    LET Body(w1) ==
            IF w1.f.unget # None
            THEN { [w |-> Fail(w1, "EIO"), r |-> EOF] }
            ELSE { [w |-> [w1 EXCEPT !.f.unget = Some(ToU8(c)),
                                     !.f.flags = @ \ {"F_EOF"}],
                    r |-> c] }
    IN  Guarded(w, Body)

ungetc(w, c) ==
    LET Body(w1) ==
            IF w1.f.unget # None
            THEN { [w |-> Fail(w1, "EIO"), r |-> EOF] }
            ELSE { [w |-> [w1 EXCEPT !.f.unget = Some(ToU8(c))], r |-> c] }
    IN  Guarded(w, Body)

\* fseeko that hands the caller's offset to the platform as it is.
fseeko_no_adjust(w, off, whence) ==
    LET Body(w1) ==
            UNION { IF ~fl.ok
                    THEN { [w |-> fl.w, r |-> -1] }
                    ELSE LET sk == SysLseek(fl.w, off, whence)
                         IN  IF sk.r < 0
                             THEN { [w |-> sk.w, r |-> sk.r] }
                             ELSE { [w |-> [sk.w EXCEPT
                                              !.f.flags = @ \ {"F_EOF", "F_ERR"},
                                              !.f.read_pos = 0,
                                              !.f.read_size = 0,
                                              !.f.unget = None],
                                     r |-> 0] }
                  : fl \in flush(w1) }
    IN  Guarded(w, Body)

\* fseeko that moves the descriptor before it flushes the writer.
fseeko_seek_first(w, off, whence) ==
    LET Body(w1) ==
            LET off1 == IF whence = "SEEK_CUR"
                        THEN off - (w1.f.read_size - w1.f.read_pos)
                        ELSE off
                sk   == SysLseek(w1, off1, whence)
            IN  IF sk.r < 0
                THEN { [w |-> sk.w, r |-> sk.r] }
                ELSE { IF ~fl.ok
                       THEN [w |-> fl.w, r |-> -1]
                       ELSE [w |-> [fl.w EXCEPT
                                      !.f.flags = @ \ {"F_EOF", "F_ERR"},
                                      !.f.read_pos = 0,
                                      !.f.read_size = 0,
                                      !.f.unget = None],
                             r |-> 0]
                     : fl \in flush(sk.w) }
    IN  Guarded(w, Body)

\* fseeko that leaves the pushback slot as it was.
fseeko_keeps_unget(w, off, whence) ==
    LET Body(w1) ==
            LET off1 == IF whence = "SEEK_CUR"
                        THEN off - (w1.f.read_size - w1.f.read_pos)
                        ELSE off
            IN  UNION { IF ~fl.ok
                        THEN { [w |-> fl.w, r |-> -1] }
                        ELSE LET sk == SysLseek(fl.w, off1, whence)
                             IN  IF sk.r < 0
                                 THEN { [w |-> sk.w, r |-> sk.r] }
                                 ELSE { [w |-> [sk.w EXCEPT
                                                  !.f.flags = @ \ {"F_EOF", "F_ERR"},
                                                  !.f.read_pos = 0,
                                                  !.f.read_size = 0],
                                         r |-> 0] }
                      : fl \in flush(w1) }
    IN  Guarded(w, Body)

fseeko(w, off, whence) ==
    LET Body(w1) ==
            LET off1 == IF whence = "SEEK_CUR"
                        THEN off - (w1.f.read_size - w1.f.read_pos)
                        ELSE off
            IN  UNION { IF ~fl.ok
                        THEN { [w |-> fl.w, r |-> -1] }
                        ELSE LET sk == SysLseek(fl.w, off1, whence)
                             IN  IF sk.r < 0
                                 THEN { [w |-> sk.w, r |-> sk.r] }
                                 ELSE { [w |-> [sk.w EXCEPT
                                                  !.f.flags = @ \ {"F_EOF", "F_ERR"},
                                                  !.f.read_pos = 0,
                                                  !.f.read_size = 0,
                                                  !.f.unget = None],
                                         r |-> 0] }
                      : fl \in flush(w1) }
    IN  Guarded(w, Body)

\* ftello that reports the platform's offset as it is.
ftello_raw(w) ==
    LET Body(w1) ==
            LET sk == SysLseek(w1, 0, "SEEK_CUR")
            IN  IF sk.r < 0
                THEN { [w |-> sk.w, r |-> -1] }
                ELSE { [w |-> sk.w, r |-> sk.r] }
    IN  Guarded(w, Body)

ftello(w) ==
    LET Body(w1) ==
            LET sk == SysLseek(w1, 0, "SEEK_CUR")
            IN  IF sk.r < 0
                THEN { [w |-> sk.w, r |-> -1] }
                ELSE { [w |-> sk.w,
                        r |-> sk.r - (w1.f.read_size - w1.f.read_pos)] }
    IN  Guarded(w, Body)

\* buf is None for a null pointer, Some(bytes) for the caller's buffer.
setvbuf(w, buf, size) ==
    LET Body(w1) ==
            LET new == IF buf = None \/ size = 0
                       THEN Zeros(IF size = 0 THEN BUFSIZ ELSE size)
                       ELSE SubSeq(buf[1], 1, size)
            IN  { [w |-> [w1 EXCEPT !.f.read_buf = new,
                                    !.f.flags = @ \cup {"F_SVB"}],
                   r |-> 0] }
    IN  Guarded(w, Body)

\* A search that finds no newline.
FirstNL_none(bytes) == 0

\* The index of the first newline of bytes, or 0:
\* buf[..len].iter().position(|&c| c == b'\n'), counted from 1.
FirstNL(bytes) ==
    LET at == {i \in 1..Len(bytes) : bytes[i] = NL}
    IN  IF at = {} THEN 0 ELSE CHOOSE i \in at : \A j \in at : i <= j

\* The loop of fgets (mod.rs:313-346).  out is the bytes stored in the
\* destination so far, in the order of their addresses.
RECURSIVE FgetsLoop(_, _, _, _)
FgetsLoop(w, out, left, wrote) ==
    IF left = 0
    THEN { [w |-> w, out |-> out, wrote |-> wrote, err |-> FALSE] }
    ELSE UNION {
           IF ~o.ok
           THEN { [w |-> o.w, out |-> out, wrote |-> wrote, err |-> TRUE] }
           ELSE IF o.buf = <<>>
           THEN { [w |-> o.w, out |-> out, wrote |-> wrote, err |-> FALSE] }
           ELSE LET len0 == Min(Len(o.buf), left)
                    nl   == FirstNL(SubSeq(o.buf, 1, len0))
                    len  == IF nl > 0 THEN nl ELSE len0
                    w2   == consume(o.w, len)
                    out2 == out \o SubSeq(o.buf, 1, len)
                IN  IF nl > 0
                    THEN { [w |-> w2, out |-> out2, wrote |-> TRUE, err |-> FALSE] }
                    ELSE FgetsLoop(w2, out2, left - len, TRUE)
         : o \in fill_buf(w) }

\* fgets that keeps no room for the terminator.
fgets_no_room(w, max) ==
    LET Body(w1) ==
            LET left0 == max
                take  == left0 >= 1 /\ w1.f.unget # None
                w2    == IF take THEN [w1 EXCEPT !.f.unget = None] ELSE w1
                out0  == IF take THEN <<w1.f.unget[1]>> ELSE <<>>
                left1 == IF take THEN left0 - 1 ELSE left0
            IN  { IF o.err
                  THEN [w |-> o.w, r |-> [ptr |-> 0, out |-> o.out]]
                  ELSE [w |-> o.w,
                        r |-> [ptr |-> IF o.wrote THEN 1 ELSE 0,
                               out |-> IF max >= 1 THEN Append(o.out, 0)
                                       ELSE o.out]]
                : o \in FgetsLoop(w2, out0, left1, FALSE) }
    IN  Guarded(w, Body)

\* fgets: r is 1 for the destination pointer, 0 for null; out is what was
\* stored in the destination, terminator included.
fgets(w, max) ==
    LET Body(w1) ==
            LET left0 == IF max >= 1 THEN max - 1 ELSE 0
                take  == left0 >= 1 /\ w1.f.unget # None
                w2    == IF take THEN [w1 EXCEPT !.f.unget = None] ELSE w1
                out0  == IF take THEN <<w1.f.unget[1]>> ELSE <<>>
                left1 == IF take THEN left0 - 1 ELSE left0
            IN  { IF o.err
                  THEN [w |-> o.w, r |-> [ptr |-> 0, out |-> o.out]]
                  ELSE [w |-> o.w,
                        r |-> [ptr |-> IF o.wrote THEN 1 ELSE 0,
                               out |-> IF max >= 1 THEN Append(o.out, 0)
                                       ELSE o.out]]
                : o \in FgetsLoop(w2, out0, left1, FALSE) }
    IN  Guarded(w, Body)

\* The loop of fread (mod.rs:437-442): got is the bytes stored so far.
RECURSIVE FreadLoop(_, _, _)
FreadLoop(w, got, total) ==
    IF Len(got) >= total
    THEN { [w |-> w, got |-> got] }
    ELSE UNION { IF ~o.ok \/ o.n = 0
                 THEN { [w |-> o.w, got |-> got] }
                 ELSE FreadLoop(o.w, got \o o.data, total)
               : o \in read(w, total - Len(got)) }

\* fread that counts a started element as a whole one.
fread_rounds_up(w, size, nitems) ==
    LET Body(w1) ==
            { [w |-> o.w,
               r |-> [n |-> (Len(o.got) + size - 1) \div size, out |-> o.got]]
              : o \in FreadLoop(w1, <<>>, size * nitems) }
    IN  IF size = 0 \/ nitems = 0
        THEN { [w |-> w, r |-> [n |-> 0, out |-> <<>>]] }
        ELSE Guarded(w, Body)

fread(w, size, nitems) ==
    LET Body(w1) ==
            { [w |-> o.w, r |-> [n |-> Len(o.got) \div size, out |-> o.got]]
              : o \in FreadLoop(w1, <<>>, size * nitems) }
    IN  IF size = 0 \/ nitems = 0
        THEN { [w |-> w, r |-> [n |-> 0, out |-> <<>>]] }
        ELSE Guarded(w, Body)

putc_unlocked(w, c) ==
    { [w |-> o.w, r |-> IF ~o.ok \/ o.n = 0 THEN EOF ELSE c]
      : o \in write(w, <<ToU8(c)>>) }

fputc(w, c) ==
    LET Body(w1) == putc_unlocked(w1, c)
    IN  Guarded(w, Body)

\* The loop of fwrite (mod.rs:580-585): written counts the bytes accepted.
RECURSIVE FwriteLoop(_, _, _)
FwriteLoop(w, buf, written) ==
    IF written >= Len(buf)
    THEN { [w |-> w, written |-> written] }
    ELSE UNION { IF ~o.ok \/ o.n = 0
                 THEN { [w |-> o.w, written |-> written] }
                 ELSE FwriteLoop(o.w, buf, written + o.n)
               : o \in write(w, SubSeq(buf, written + 1, Len(buf))) }

\* buf holds the size * nitems bytes at ptr.
fwrite(w, buf, size, nitems) ==
    LET Body(w1) ==
            { [w |-> o.w, r |-> o.written \div size]
              : o \in FwriteLoop(w1, SubSeq(buf, 1, size * nitems), 0) }
    IN  IF size = 0 \/ nitems = 0
        THEN { [w |-> w, r |-> 0] }
        ELSE Guarded(w, Body)

\* s holds the bytes of the string before its terminator.
fputs(w, s) ==
    { [w |-> o.w, r |-> (IF o.r = Len(s) THEN 1 ELSE 0) - 1]
      : o \in fwrite(w, s, 1, Len(s)) }

\* puts is fputs(s, stdout) and then, when fputs did not return a positive
\* value, putchar_unlocked('\n'): PutsNewline tells whether the second runs.
PutsNewline(fputs_ret) == ~(fputs_ret > 0)

putchar_unlocked(w, c) == putc_unlocked(w, c)

fflush(w) ==
    LET Body(w1) == { [w |-> o.w, r |-> IF o.ok THEN 0 ELSE EOF] : o \in flush(w1) }
    IN  Guarded(w, Body)

clearerr(w) ==
    LET Body(w1) == { [w |-> [w1 EXCEPT !.f.flags = @ \ {"F_EOF", "F_ERR"}], r |-> 0] }
    IN  Guarded(w, Body)

\* feof and ferror return the flag's bit: 1 stands for any non-zero value.
feof(w) ==
    LET Body(w1) == { [w |-> w1, r |-> IF "F_EOF" \in w1.f.flags THEN 1 ELSE 0] }
    IN  Guarded(w, Body)

ferror(w) ==
    LET Body(w1) == { [w |-> w1, r |-> IF "F_ERR" \in w1.f.flags THEN 1 ELSE 0] }
    IN  Guarded(w, Body)

\* fclose that closes the handle without flushing the writer.
fclose_no_flush(w) ==
    LET w1 == flockfile(w)
    IN  IF Dead(w1) THEN { [w |-> w1, r |-> 0] }
        ELSE { LET r == IF cl.r < 0 THEN 1 ELSE 0
               IN  IF "F_PERM" \notin cl.w.f.flags
                   THEN [w |-> [cl.w EXCEPT !.f.state = "freed"], r |-> r]
                   ELSE [w |-> funlockfile(cl.w), r |-> r]
               : cl \in SysClose(w1) }

\* fclose that deallocates whatever stream it is given.
fclose_frees_all(w) ==
    LET w1 == flockfile(w)
    IN  IF Dead(w1) THEN { [w |-> w1, r |-> 0] }
        ELSE UNION {
               { [w |-> [cl.w EXCEPT !.f.state = "freed"],
                  r |-> IF ~fl.ok \/ cl.r < 0 THEN 1 ELSE 0]
                 : cl \in SysClose(fl.w) }
             : fl \in flush(w1) }

fclose(w) ==
    LET w1 == flockfile(w)
    IN  IF Dead(w1) THEN { [w |-> w1, r |-> 0] }
        ELSE UNION {
               { LET r == IF ~fl.ok \/ cl.r < 0 THEN 1 ELSE 0
                 IN  IF "F_PERM" \notin cl.w.f.flags
                     THEN \* Box::from_raw, dropped: the stream is deallocated
                          [w |-> [cl.w EXCEPT !.f.state = "freed"], r |-> r]
                     ELSE [w |-> funlockfile(cl.w), r |-> r]
                 : cl \in SysClose(fl.w) }
             : fl \in flush(w1) }

\* What helpers::_fdopen builds around a descriptor.
NewFILE(flags, pid) ==
    [read_buf |-> Zeros(BUFSIZ), read_pos |-> 0, read_size |-> 0,
     unget |-> None, flags |-> flags, writer |-> <<>>, pid |-> pid,
     state |-> "open"]

\* The flags helpers::_fdopen gives a stream opened with mode.
ModeFlags(mode) ==
    CASE mode = "r" -> {"F_NOWR"}
      [] mode = "w" -> {"F_NORD"}

\* The bytes behind a path opened with mode: "w" truncates.
Opened(content, mode) == IF mode = "w" THEN <<>> ELSE content

\* fclose(new) in freopen: the temporary stream has nothing to flush; its
\* own descriptor is closed and the stream deallocated.
CloseNew(w) == Log(Log(w, "flush_new"), "close_new")

\* freopen that leaves the stream's flags as they were.
freopen_keeps_flags(w, path, mode) ==
    LET w1 == flockfile(w)
        \* funlockfile(stream); fclose(stream); return null
        GiveUp(v) == { [w |-> o.w, r |-> 0] : o \in fclose(funlockfile(v)) }
        Done(v)   == { [w |-> funlockfile(v), r |-> 1] }
        Merge(v)  == v
        Reopen(v) ==
            UNION { IF fc.r < 0 THEN GiveUp(fc.w) ELSE Done(fc.w)
                  : fc \in SysFcntl(v) }
        Open(v) ==
            LET target == Opened(path[1], mode)
                v1     == Log(v, "open")
            IN  \* fopen fails
                GiveUp(Fail(v1, "ENOENT"))
                \cup
                \* the new descriptor has the number of the stream's closed one
                (IF ~v.p.fd_open
                 THEN Done(CloseNew(Merge(Retarget(v1, target))))
                 ELSE {})
                \cup
                UNION { IF d.r < 0
                        THEN GiveUp(CloseNew(d.w))
                        ELSE UNION { IF fc.r < 0
                                     THEN GiveUp(CloseNew(fc.w))
                                     ELSE Done(CloseNew(Merge(fc.w)))
                                   : fc \in SysFcntl(d.w) }
                      : d \in SysDup2(v1, target) }
    IN  IF Dead(w1) THEN { [w |-> w1, r |-> 0] }
        ELSE UNION { IF path = None THEN Reopen(fl.w) ELSE Open(fl.w)
                   : fl \in flush(w1) }

\* freopen: path is None for a null filename, Some(content) for a path with
\* content behind it.  r is 1 for the stream, 0 for null.
freopen(w, path, mode) ==
    LET w1 == flockfile(w)
        \* funlockfile(stream); fclose(stream); return null
        GiveUp(v) == { [w |-> o.w, r |-> 0] : o \in fclose(funlockfile(v)) }
        Done(v)   == { [w |-> funlockfile(v), r |-> 1] }
        Merge(v)  == [v EXCEPT !.f.flags = (@ \cap {"F_PERM"}) \cup ModeFlags(mode)]
        Reopen(v) ==
            UNION { IF fc.r < 0 THEN GiveUp(fc.w) ELSE Done(fc.w)
                  : fc \in SysFcntl(v) }
        Open(v) ==
            LET target == Opened(path[1], mode)
                v1     == Log(v, "open")
            IN  \* fopen fails
                GiveUp(Fail(v1, "ENOENT"))
                \cup
                \* the new descriptor has the number of the stream's closed one
                (IF ~v.p.fd_open
                 THEN Done(CloseNew(Merge(Retarget(v1, target))))
                 ELSE {})
                \cup
                UNION { IF d.r < 0
                        THEN GiveUp(CloseNew(d.w))
                        ELSE UNION { IF fc.r < 0
                                     THEN GiveUp(CloseNew(fc.w))
                                     ELSE Done(CloseNew(Merge(fc.w)))
                                   : fc \in SysFcntl(d.w) }
                      : d \in SysDup2(v1, target) }
    IN  IF Dead(w1) THEN { [w |-> w1, r |-> 0] }
        ELSE UNION { IF path = None THEN Reopen(fl.w) ELSE Open(fl.w)
                   : fl \in flush(w1) }

\* BufRead::fill_buf and BufRead::consume as the line and format readers
\* call them, holding the stream's guard.
LockedFillBuf(w) ==
    LET Body(w1) == { [w |-> o.w, r |-> [ok |-> o.ok, buf |-> o.buf]]
                      : o \in fill_buf(w1) }
    IN  Guarded(w, Body)

LockedConsume(w, i) ==
    LET Body(w1) == { [w |-> consume(w1, i), r |-> 0] }
    IN  Guarded(w, Body)

\* fopen of the path the closed stream was on: null (r = 0) for a mode that
\* starts with none of r, w, a and when the platform's open fails, else a
\* new stream on a new descriptor at offset 0.
fopen(w, mode) ==
    IF mode \notin {"r", "w"}
    THEN { [w |-> Fail(w, "EINVAL"), r |-> 0] }
    ELSE LET w1 == Log(w, "open")
         IN  { [w |-> Fail(w1, "ENOENT"), r |-> 0],
               [w |-> [w1 EXCEPT !.f = NewFILE(ModeFlags(mode), None),
                                 !.p.content = Opened(@, mode),
                                 !.p.pos = 0,
                                 !.p.fd_open = TRUE,
                                 !.m = FALSE],
                r |-> 1] }

\* Sys::waitpid: the child's wait status (exit code 0 or 1), or a failure.
SysWaitpid(w, pid) ==
    { [w |-> Log(w, "waitpid"), r |-> st] : st \in {0, 256} }
    \cup { [w |-> Fail(Log(w, "waitpid"), "ECHILD"), r |-> -1] }

\* pclose that closes and waits whether or not the stream has a child.
pclose_any(w) ==
    LET w1 == lock(w)
    IN  IF Dead(w1) THEN { [w |-> w1, r |-> 0] }
        ELSE LET w2 == DropGuard([w1 EXCEPT !.f.pid = None])
             IN  UNION { SysWaitpid(fc.w, 0) : fc \in fclose(w2) }

pclose(w) ==
    LET w1 == lock(w)
    IN  IF Dead(w1) THEN { [w |-> w1, r |-> 0] }
        ELSE IF w1.f.pid = None
        THEN { [w |-> DropGuard(Fail(w1, "ECHILD")), r |-> -1] }
        ELSE LET pid == w1.f.pid[1]
                 w2  == DropGuard([w1 EXCEPT !.f.pid = None])
             IN  UNION { SysWaitpid(fc.w, pid) : fc \in fclose(w2) }

-----------------------------------------------------------------------------
(* popen: the pipe, the child process and the parent's stream *)

\* A process's descriptors: what each number names.  A process starts with
\* its three standard descriptors.
StdFds ==
    [d \in 0..MaxFd |->
        CASE d = 0 -> "stdin" [] d = 1 -> "stdout" [] d = 2 -> "stderr"
          [] OTHER -> "closed"]

\* unistd::dup2(fildes, fildes2): fildes2 names what fildes names; nothing
\* changes when fildes is not open.
Dup2(fds, fildes, fildes2) ==
    IF fds[fildes] = "closed" THEN fds
    ELSE [fds EXCEPT ![fildes2] = fds[fildes]]

\* unistd::close(fildes).
Close(fds, fildes) == [fds EXCEPT ![fildes] = "closed"]

\* No child process.
NoChild == [pc |-> "none", fds |-> StdFds, write |-> FALSE,
            pipes |-> <<0, 0>>, command |-> "none"]

\* The parent's descriptors: the stream's own descriptor is open as long as
\* fd_open says so.
Table(p) == [p.fds EXCEPT ![p.fd] = IF p.fd_open THEN @ ELSE "closed"]

\* The loop of popen over the bytes of its mode.
RECURSIVE PopenMode(_, _, _)
PopenMode(bytes, cloexec, write_opt) ==
    IF bytes = <<>>
    THEN [ok |-> write_opt # None, cloexec |-> cloexec, write_opt |-> write_opt]
    ELSE LET b == Head(bytes)
         IN  IF b = "e" THEN PopenMode(Tail(bytes), TRUE, write_opt)
             ELSE IF b = "r" /\ write_opt = None
             THEN PopenMode(Tail(bytes), cloexec, Some(FALSE))
             ELSE IF b = "w" /\ write_opt = None
             THEN PopenMode(Tail(bytes), cloexec, Some(TRUE))
             ELSE [ok |-> FALSE, cloexec |-> cloexec, write_opt |-> write_opt]

\* unistd::pipe: the two lowest free descriptors become the read end and the
\* write end of a new pipe, or it fails.
UnistdPipe(w) ==
    LET fds  == Table(w.p)
        free == { d \in 0..MaxFd : fds[d] = "closed" }
        w1   == Log(w, "pipe")
    IN  IF Cardinality(free) < 2
        THEN { [w |-> Fail(w1, "EMFILE"), r |-> -1, pipes |-> <<0, 0>>] }
        ELSE LET rd == CHOOSE d \in free : \A e \in free : d <= e
                 wr == CHOOSE d \in free \ {rd} : \A e \in free \ {rd} : d <= e
             IN  { [w     |-> [w1 EXCEPT !.p.fds = [fds EXCEPT ![rd] = "pipe_r",
                                                              ![wr] = "pipe_w"],
                                         !.p.fd_open = FALSE],
                    r     |-> 0,
                    pipes |-> <<rd, wr>>],
                   [w |-> Fail(w1, "ENFILE"), r |-> -1, pipes |-> <<0, 0>>] }

\* popen: command is None for a null command; mode is the bytes of the mode
\* string.  r is 1 for the stream, 0 for null.  pipes[1] and pipes[2] are the
\* source's pipes[0] and pipes[1]; the child starts at its first statement
\* after fork with a copy of the parent's descriptors.
popen(w, command, mode) ==
    LET parsed == PopenMode(mode, FALSE, None)
    IN  IF ~parsed.ok THEN { [w |-> Fail(w, "EINVAL"), r |-> 0] }
        ELSE LET writing == parsed.write_opt[1]
                 Parent(v, pipes) ==
                     LET unused == IF writing THEN pipes[1] ELSE pipes[2]
                         fd     == IF writing THEN pipes[2] ELSE pipes[1]
                         v1     == [Log(v, "close_pipe") EXCEPT
                                       !.p.fds = Close(@, unused)]
                         v2     == Log(v1, "fdopen")
                     IN  { [w |-> [v2 EXCEPT
                                     !.f = NewFILE(ModeFlags(IF writing THEN "w"
                                                             ELSE "r"),
                                                   Some(1)),
                                     !.p.content = <<>>,
                                     !.p.pos = 0,
                                     !.p.seekable = FALSE,
                                     !.p.fd = fd,
                                     !.p.fd_open = TRUE,
                                     !.p.cloexec = parsed.cloexec,
                                     !.m = FALSE],
                            r |-> 1],
                           [w |-> Fail(v2, "ENOMEM"), r |-> 0] }
                 Fork(v, pipes) ==
                     LET v1 == Log(v, "fork")
                     IN  { [w |-> Fail(v1, "EAGAIN"), r |-> 0] }
                         \cup
                         Parent([v1 EXCEPT !.p.child =
                                    [pc      |-> "dup2",
                                     fds     |-> v1.p.fds,
                                     write   |-> writing,
                                     pipes   |-> pipes,
                                     command |-> IF command = None
                                                 THEN "exit 0"
                                                 ELSE command[1]]],
                                pipes)
             IN  UNION { IF pp.r # 0 THEN { [w |-> pp.w, r |-> 0] }
                         ELSE Fork(pp.w, pp.pipes)
                       : pp \in UnistdPipe(w) }

\* One statement of the child between fork and the shell: dup2, the two
\* closes, execv (which starts the shell or fails, and then exit(127)), and
\* the shell's own end.
ChildStatement(c) ==
    CASE c.pc = "dup2" ->
           { [c EXCEPT !.pc = "close0",
                       !.fds = IF c.write THEN Dup2(@, 0, c.pipes[1])
                               ELSE Dup2(@, 1, c.pipes[2])] }
      [] c.pc = "close0" ->
           { [c EXCEPT !.pc = "close1", !.fds = Close(@, c.pipes[1])] }
      [] c.pc = "close1" ->
           { [c EXCEPT !.pc = "execv", !.fds = Close(@, c.pipes[2])] }
      [] c.pc = "execv" ->
           { [c EXCEPT !.pc = "shell"], [c EXCEPT !.pc = "exit127"] }
      [] c.pc = "shell" ->
           { [c EXCEPT !.pc = "exited"] }
      [] OTHER -> {}

-----------------------------------------------------------------------------
(* The stream as one thread uses it: every action is one whole entry point *)

Contents == { <<>>, <<97>>, <<97, NL>>, <<97, 97, NL>>, <<NL, 97>> }

\* What an entry point finds staged in the stream: the pushback slot and the
\* number of fetched, unconsumed bytes.
Staged(f) == [unget |-> f.unget, buffered |-> f.read_size - f.read_pos]

NoCall == [op |-> "none", arg |-> <<>>, ret |-> 0, out |-> <<>>,
           was |-> Staged(NewFILE({}, None))]

NoAccess == [t |-> 0, op |-> "none", locked |-> TRUE]

Init ==
    /\ stream = NewFILE({}, None)
    /\ \E c \in Contents, sk \in BOOLEAN :
          sys = [content |-> c, pos |-> 0, seekable |-> sk,
                 fd_open |-> TRUE, errno |-> "none"]
    /\ calls = <<>>
    /\ last = NoCall
    /\ mutex = FALSE
    /\ pc = [t \in Threads |-> "idle"]
    /\ hold = [t \in Threads |-> FALSE]
    /\ access = NoAccess

\* The world an entry point starts in.
World == [f |-> stream, p |-> sys, m |-> mutex, calls |-> <<>>]

\* An entry point can be called: the stream exists, the process runs and no
\* thread is inside the stream.
Callable ==
    /\ stream.state = "open"
    /\ ~mutex

\* The model follows the storage up to MaxFile bytes and the descriptor's
\* offset up to one byte past that.
InBounds(w) ==
    /\ Len(w.p.content) <= MaxFile
    /\ w.p.pos <= MaxFile + 1
    /\ w.p.pos + Len(w.f.writer) <= MaxFile + 1

\* The state an entry point leaves.
Return(o, op, arg, out) ==
    /\ InBounds(o.w)
    /\ stream' = o.w.f
    /\ sys' = o.w.p
    /\ mutex' = o.w.m
    /\ calls' = o.w.calls
    /\ last' = [op |-> op, arg |-> arg, ret |-> o.r, out |-> out,
                was |-> Staged(stream)]
    /\ UNCHANGED <<pc, hold, access>>

Fgetc ==
    /\ Callable
    /\ \E o \in fgetc(World) : Return(o, "fgetc", <<>>, <<>>)

\* ungetc with its byte drawn from cs.
UngetcOf(cs) ==
    /\ Callable
    /\ \E c \in cs :
          \E o \in ungetc(World, c) : Return(o, "ungetc", <<c>>, <<>>)

Ungetc == UngetcOf(DataBytes \cup {EOF})

SeekOffsets == -1..1

\* fseeko with its offset and whence drawn from args.
FseekoOf(args) ==
    /\ Callable
    /\ \E a \in args :
          \E o \in fseeko(World, a[1], a[2]) : Return(o, "fseeko", a, <<>>)

Fseeko == FseekoOf(SeekOffsets \X (Whences \cup {"SEEK_BAD"}))

Ftello ==
    /\ Callable
    /\ \E o \in ftello(World) : Return(o, "ftello", <<>>, <<>>)

Setvbuf ==
    /\ Callable
    /\ \E size \in 0..MaxBuf, buf \in {None, Some([i \in 1..MaxBuf |-> 97])} :
          \E o \in setvbuf(World, buf, size) :
             Return(o, "setvbuf", <<buf, size>>, <<>>)

Fgets ==
    /\ Callable
    /\ \E max \in 0..MaxCap :
          \E o \in fgets(World, max) :
             Return([w |-> o.w, r |-> o.r.ptr], "fgets", <<max>>, o.r.out)

Fread ==
    /\ Callable
    /\ \E size \in 0..2, nitems \in 0..2 :
          /\ size * nitems <= MaxCap
          /\ \E o \in fread(World, size, nitems) :
                Return([w |-> o.w, r |-> o.r.n], "fread", <<size, nitems>>, o.r.out)

FillBuf ==
    /\ Callable
    /\ \E o \in LockedFillBuf(World) :
          Return([w |-> o.w, r |-> IF o.r.ok THEN 0 ELSE -1],
                 "fill_buf", <<>>, o.r.buf)

Consume ==
    /\ Callable
    /\ \E i \in 1..MaxBuf :
          \E o \in LockedConsume(World, i) : Return(o, "consume", <<i>>, <<>>)

Clearerr ==
    /\ Callable
    /\ \E o \in clearerr(World) : Return(o, "clearerr", <<>>, <<>>)

\* What lies behind the paths freopen is given.
Targets == { <<NL, 97>> }

\* freopen with its mode drawn from modes.
FreopenOf(modes) ==
    /\ Callable
    /\ \E path \in {None} \cup {Some(c) : c \in Targets}, mode \in modes :
          \E o \in freopen(World, path, mode) :
             Return(o, "freopen", <<path, mode>>, <<>>)

Freopen == FreopenOf({"r", "w"})

Next ==
    \/ Fgetc
    \/ Ungetc
    \/ Fgets
    \/ FillBuf
    \/ Consume
    \/ Fseeko
    \/ Ftello
    \/ Clearerr

Spec == Init /\ [][Next]_vars

Fputc ==
    /\ Callable
    /\ \E c \in DataBytes :
          \E o \in fputc(World, c) : Return(o, "fputc", <<c>>, <<>>)

Fwrite ==
    /\ Callable
    /\ \E buf \in {<<97, 97>>, <<97, NL>>}, size \in 0..2, nitems \in 0..2 :
          /\ size * nitems <= Len(buf)
          /\ \E o \in fwrite(World, buf, size, nitems) :
                Return(o, "fwrite", <<buf, size, nitems>>, <<>>)

Fflush ==
    /\ Callable
    /\ \E o \in fflush(World) : Return(o, "fflush", <<>>, <<>>)

Fclose ==
    /\ Callable
    /\ \E o \in fclose(World) : Return(o, "fclose", <<>>, <<>>)

-----------------------------------------------------------------------------
(* The stream written to as well as read *)

InitIO ==
    /\ Init
    /\ sys.content = <<97, NL>>
    /\ sys.seekable

\* rewind, a seek by zero, a seek to the end and a seek the platform refuses.
SeeksIO == { <<0, "SEEK_SET">>, <<0, "SEEK_CUR">>, <<0, "SEEK_END">>,
             <<-1, "SEEK_SET">> }

NextIO ==
    \/ Fputc
    \/ Fflush
    \/ Fgetc
    \/ UngetcOf({97})
    \/ FseekoOf(SeeksIO)
    \/ FreopenOf({"w"})

SpecIO == InitIO /\ [][NextIO]_vars

-----------------------------------------------------------------------------
(* The stream with its read buffer replaced and its target reopened *)

InitBuf ==
    /\ Init
    /\ sys.content = <<97, 97, NL>>
    /\ sys.seekable

NextBuf ==
    \/ Fgetc
    \/ Fgets
    \/ Fread
    \/ FillBuf
    \/ Consume
    \/ Fseeko
    \/ Setvbuf
    \/ Freopen

SpecBuf == InitBuf /\ [][NextBuf]_vars

-----------------------------------------------------------------------------
(* A file written, closed, opened again and read; a popen stream closed *)

\* A stream open for writing on a new, empty file: one fopen returned, or
\* stdout, or the stream popen returns for mode "w".
InitFile ==
    /\ \E fl \in {{}, {"F_PERM"}}, pid \in {None, Some(1)} :
          /\ pid # None => fl = {}
          /\ stream = NewFILE(ModeFlags("w") \cup fl, pid)
    /\ sys = [content |-> <<>>, pos |-> 0, seekable |-> TRUE,
              fd_open |-> TRUE, errno |-> "none"]
    /\ calls = <<>>
    /\ last = NoCall
    /\ mutex = FALSE
    /\ pc = [t \in Threads |-> "idle"]
    /\ hold = [t \in Threads |-> FALSE]
    /\ access = NoAccess

\* __fwritable and __freadable (ext.rs): the program writes the streams it
\* opened for writing and reads those it opened for reading.
Writable == "F_NOWR" \notin stream.flags

Readable == "F_NORD" \notin stream.flags

FwriteFile == Writable /\ Fwrite

FflushFile == Writable /\ Fflush

\* fread of up to MaxCap bytes, more than the read buffer holds.
FreadFile ==
    /\ Callable
    /\ Readable
    /\ \E size \in 0..2, nitems \in 0..MaxCap :
          /\ size * nitems <= MaxCap
          /\ \E o \in fread(World, size, nitems) :
                Return([w |-> o.w, r |-> o.r.n], "fread", <<size, nitems>>, o.r.out)

SetvbufFile ==
    /\ Callable
    /\ Writable
    /\ "F_SVB" \notin stream.flags
    /\ \E o \in setvbuf(World, Some([i \in 1..MaxBuf |-> 97]), MaxBuf) :
          Return(o, "setvbuf", <<MaxBuf>>, <<>>)

Pclose ==
    /\ Callable
    /\ \E o \in pclose(World) : Return(o, "pclose", <<>>, <<>>)

\* fopen after fclose gave the stream back.
Fopen ==
    /\ stream.state = "freed"
    /\ \E mode \in {"r", "x"} :
          \E o \in fopen(World, mode) : Return(o, "fopen", <<mode>>, <<>>)

NextFile ==
    \/ FwriteFile
    \/ FflushFile
    \/ SetvbufFile
    \/ Fclose
    \/ Pclose
    \/ Fopen
    \/ FreadFile

SpecFile == InitFile /\ [][NextFile]_vars

-----------------------------------------------------------------------------
(* The status flags under every entry point that can set or clear them *)

InitFlags ==
    /\ Init
    /\ sys.content = <<97>>
    /\ sys.seekable

Feof ==
    /\ Callable
    /\ \E o \in feof(World) : Return(o, "feof", <<>>, <<>>)

Ferror ==
    /\ Callable
    /\ \E o \in ferror(World) : Return(o, "ferror", <<>>, <<>>)

\* rewind, and a seek the platform refuses.
SeeksFlags == { <<0, "SEEK_SET">>, <<-1, "SEEK_SET">> }

\* fputc of a byte that is not a newline.
FputcPlain ==
    /\ Callable
    /\ \E o \in fputc(World, 97) : Return(o, "fputc", <<97>>, <<>>)

NextFlags ==
    \/ Fgetc
    \/ Fgets
    \/ Fread
    \/ FillBuf
    \/ UngetcOf({97})
    \/ FputcPlain
    \/ Fflush
    \/ Ftello
    \/ SetvbufFile
    \/ Feof
    \/ Ferror
    \/ Clearerr
    \/ FseekoOf(SeeksFlags)

SpecFlags == InitFlags /\ [][NextFlags]_vars

-----------------------------------------------------------------------------
(* The return paths of the entry points that take the lock themselves *)

\* A stream fopen returned, or a permanent one, on a one-byte file.
InitPaths ==
    /\ \E fl \in {{}, {"F_PERM"}} : stream = NewFILE(fl, None)
    /\ sys = [content |-> <<97>>, pos |-> 0, seekable |-> TRUE,
              fd_open |-> TRUE, errno |-> "none"]
    /\ calls = <<>>
    /\ last = NoCall
    /\ mutex = FALSE
    /\ pc = [t \in Threads |-> "idle"]
    /\ hold = [t \in Threads |-> FALSE]
    /\ access = NoAccess

\* fgets with the largest capacity.
FgetsLine ==
    /\ Callable
    /\ \E o \in fgets(World, MaxCap) :
          Return([w |-> o.w, r |-> o.r.ptr], "fgets", <<MaxCap>>, o.r.out)

NextPaths ==
    \/ FseekoOf(SeeksFlags)
    \/ UngetcOf({97})
    \/ Pclose
    \/ FgetsLine
    \/ FputcPlain
    \/ Fflush
    \/ FreopenOf({"r"})
    \/ Fclose

SpecPaths == InitPaths /\ [][NextPaths]_vars

-----------------------------------------------------------------------------
(* A program that opens a stream on a child process, uses and closes it *)

\* No stream yet; the process has its standard descriptors.
InitPopen ==
    /\ stream = [NewFILE({}, None) EXCEPT !.state = "freed"]
    /\ sys = [content |-> <<>>, pos |-> 0, seekable |-> FALSE,
              fd_open |-> FALSE, errno |-> "none",
              fds |-> StdFds, fd |-> MaxFd, cloexec |-> FALSE,
              child |-> NoChild]
    /\ calls = <<>>
    /\ last = NoCall
    /\ mutex = FALSE
    /\ pc = [t \in Threads |-> "idle"]
    /\ hold = [t \in Threads |-> FALSE]
    /\ access = NoAccess

PopenModes == { <<"r">>, <<"w">>, <<"w", "e">>, <<"e", "r">>, <<"r", "w">>,
                <<"e">>, <<"x">>, <<>> }

\* The child has ended, or there is none.
ChildOver == sys.child.pc \in {"none", "exit127", "exited"}

\* popen when the program holds no stream and its last child is over.
Popen ==
    /\ stream.state = "freed"
    /\ ChildOver
    /\ \E command \in {None, Some("cat")}, mode \in PopenModes :
          \E o \in popen(World, command, mode) :
             Return(o, "popen", <<command, mode>>, <<>>)

\* The child process runs its next statement.
ChildStep ==
    /\ \E c \in ChildStatement(sys.child) : sys' = [sys EXCEPT !.child = c]
    /\ UNCHANGED <<stream, calls, last, mutex, pc, hold, access>>

\* pclose once the child is over: waitpid does not return before.
PcloseChild ==
    /\ Callable
    /\ ChildOver
    /\ \E o \in pclose(World) :
          Return([o EXCEPT !.w.p.child =
                     IF \E i \in 1..Len(o.w.calls) : o.w.calls[i] = "waitpid"
                     THEN NoChild ELSE @],
                 "pclose", <<>>, <<>>)

NextPopen ==
    \/ Popen
    \/ ChildStep
    \/ PcloseChild
    \/ FputcPlain
    \/ Fflush
    \/ Fgetc

SpecPopen == InitPopen /\ [][NextPopen]_vars

-----------------------------------------------------------------------------
(* stdout shared by threads.  An entry point that takes the lock runs in two
   steps: the thread takes the lock, then runs the rest and returns.  An
   _unlocked entry point is one step of a thread that holds the lock. *)

\* stdout on a pipe or a terminal: nothing in it yet, and not seekable.
InitLock ==
    /\ stream = NewFILE({"F_PERM"}, None)
    /\ sys = [content |-> <<>>, pos |-> 0, seekable |-> FALSE,
              fd_open |-> TRUE, errno |-> "none"]
    /\ calls = <<>>
    /\ last = NoCall
    /\ mutex = FALSE
    /\ pc = [t \in Threads |-> "idle"]
    /\ hold = [t \in Threads |-> FALSE]
    /\ access = NoAccess

\* A thread between two calls.
Idle(t) == pc[t] = "idle" /\ stream.state = "open"

\* The world of a thread that took the lock when it entered op, as op found
\* it: op's operator starts by taking the lock.
Entered == [World EXCEPT !.m = FALSE]

\* Thread t touches the stream's fields inside op.
Touch(t, op) == access' = [t |-> t, op |-> op, locked |-> hold[t]]

\* Thread t returns from op with result o.
Returns(t, o, op, arg) ==
    /\ InBounds(o.w)
    /\ stream' = o.w.f
    /\ sys' = o.w.p
    /\ mutex' = o.w.m
    /\ calls' = o.w.calls
    /\ last' = [op |-> op, arg |-> arg, ret |-> o.r, out |-> <<>>,
                was |-> Staged(stream)]
    /\ pc' = [pc EXCEPT ![t] = "idle"]

\* Thread t calls op, which starts with FILE::lock (with flockfile, for
\* fclose), and gets the lock.  A thread that holds the lock calls no entry
\* point that takes it.
Enter(t, op, w) ==
    /\ Idle(t)
    /\ ~hold[t]
    /\ w.f.state # "waiting"
    /\ mutex' = w.m
    /\ calls' = w.calls
    /\ hold' = [hold EXCEPT ![t] = TRUE]
    /\ pc' = [pc EXCEPT ![t] = op]
    /\ UNCHANGED <<stream, sys, last, access>>

EnterLocked(t) ==
    \E op \in {"fputc", "fgetc", "fseeko", "puts"} : Enter(t, op, lock(World))

EnterFclose(t) == Enter(t, "fclose", flockfile(World))

RunFputc(t) ==
    /\ pc[t] = "fputc"
    /\ \E o \in fputc(Entered, 97) : Returns(t, o, "fputc", <<97>>)
    /\ Touch(t, "fputc")
    /\ hold' = [hold EXCEPT ![t] = FALSE]

RunFgetc(t) ==
    /\ pc[t] = "fgetc"
    /\ \E o \in fgetc(Entered) : Returns(t, o, "fgetc", <<>>)
    /\ Touch(t, "fgetc")
    /\ hold' = [hold EXCEPT ![t] = FALSE]

RunFseeko(t) ==
    /\ pc[t] = "fseeko"
    /\ \E o \in fseeko(Entered, 0, "SEEK_SET") :
          Returns(t, o, "fseeko", <<0, "SEEK_SET">>)
    /\ Touch(t, "fseeko")
    /\ hold' = [hold EXCEPT ![t] = FALSE]

RunFclose(t) ==
    /\ pc[t] = "fclose"
    /\ \E o \in fclose(Entered) : Returns(t, o, "fclose", <<>>)
    /\ Touch(t, "fclose")
    /\ hold' = [hold EXCEPT ![t] = FALSE]

\* puts("a"): fputs, which locks stdout through fwrite ...
RunPutsString(t) ==
    /\ pc[t] = "puts"
    /\ \E o \in fputs(Entered, <<97>>) :
          /\ InBounds(o.w)
          /\ stream' = o.w.f
          /\ sys' = o.w.p
          /\ mutex' = o.w.m
          /\ calls' = o.w.calls
          /\ IF PutsNewline(o.r)
             THEN /\ pc' = [pc EXCEPT ![t] = "puts_newline"]
                  /\ last' = last
             ELSE /\ pc' = [pc EXCEPT ![t] = "idle"]
                  /\ last' = [op |-> "puts", arg |-> <<97>>, ret |-> 0,
                              out |-> <<>>, was |-> Staged(stream)]
    /\ Touch(t, "puts")
    /\ hold' = [hold EXCEPT ![t] = FALSE]

\* ... and then putchar_unlocked('\n')
RunPutsNewline(t) ==
    /\ pc[t] = "puts_newline"
    /\ stream.state = "open"
    /\ \E o \in putchar_unlocked(World, NL) :
          Returns(t, [w |-> o.w, r |-> IF o.r > 0 THEN 0 ELSE -1],
                  "puts", <<97>>)
    /\ Touch(t, "puts")
    /\ UNCHANGED hold

Flockfile(t) ==
    /\ Idle(t)
    /\ ~hold[t]
    /\ LET w == flockfile(World)
       IN  /\ w.f.state # "waiting"
           /\ Returns(t, [w |-> w, r |-> 0], "flockfile", <<>>)
    /\ hold' = [hold EXCEPT ![t] = TRUE]
    /\ UNCHANGED access

Ftrylockfile(t) ==
    /\ Idle(t)
    /\ ~hold[t]
    /\ LET o == ftrylockfile(World)
       IN  /\ Returns(t, o, "ftrylockfile", <<>>)
           /\ hold' = [hold EXCEPT ![t] = (o.r = 0)]
    /\ UNCHANGED access

Funlockfile(t) ==
    /\ Idle(t)
    /\ hold[t]
    /\ Returns(t, [w |-> funlockfile(World), r |-> 0], "funlockfile", <<>>)
    /\ hold' = [hold EXCEPT ![t] = FALSE]
    /\ UNCHANGED access

PutcUnlocked(t) ==
    /\ Idle(t)
    /\ hold[t]
    /\ \E o \in putc_unlocked(World, 97) :
          Returns(t, o, "putc_unlocked", <<97>>)
    /\ Touch(t, "putc_unlocked")
    /\ UNCHANGED hold

NextLock ==
    \E t \in Threads :
        \/ EnterLocked(t)
        \/ EnterFclose(t)
        \/ RunFputc(t)
        \/ RunFgetc(t)
        \/ RunFseeko(t)
        \/ RunFclose(t)
        \/ RunPutsString(t)
        \/ RunPutsNewline(t)
        \/ Flockfile(t)
        \/ Ftrylockfile(t)
        \/ Funlockfile(t)
        \/ PutcUnlocked(t)

SpecLock == InitLock /\ [][NextLock]_vars

-----------------------------------------------------------------------------
(* Properties of the stream engine *)

\* The value ftello reports when the platform's position query works: the
\* logical position.
Tell == sys.pos - (stream.read_size - stream.read_pos)

\* The platform can report and move the descriptor's offset.
LseekWorks == sys.seekable /\ sys.fd_open

IsByte(c) == c \in 0..255

\* The threads that took the stream's lock and have not released it.
Holders == {t \in Threads : hold[t]}

\* C1: at most one thread holds the stream's lock, however it was taken, and
\* the mutex is locked while a thread holds it; ftrylockfile never waits: it
\* returns 1 and takes nothing when the lock is held, and returns 0 and holds
\* the lock when it was free.
C1_OneHolder ==
    [][ /\ Cardinality(Holders') <= 1
        /\ Holders' # {} => mutex'
        /\ (last' # last /\ last'.op = "ftrylockfile") =>
              IF mutex
              THEN last'.ret = 1 /\ hold' = hold /\ mutex'
              ELSE last'.ret = 0 /\ mutex' /\ \E t \in Threads : Holders' = {t}
      ]_vars

\* C1 happens: a thread is inside fputc on stdout while another one, whose
\* ftrylockfile has just returned 1, holds nothing.
C1_Witness ==
    /\ last.op = "ftrylockfile"
    /\ last.ret = 1
    /\ \E t \in Threads : pc[t] = "fputc" /\ Holders = {t}
    /\ mutex

\* C2: whenever an entry point that is not an _unlocked one touches the
\* stream's fields, the thread running it holds the stream's lock.
C2_TouchedUnderLock ==
    access.op \notin {"none", "putc_unlocked"} => access.locked

\* C3: with a byte pushed back, whatever the read buffer holds and whether or
\* not the stream is at EOF, the next single-byte read returns exactly that
\* byte, issues no platform read, consumes no buffered byte and empties the
\* slot (and right after a successful ungetc(c) of a byte c it returns c);
\* a single-byte read with the slot empty takes its byte from the buffer,
\* or from the handle when the buffer is used up.
C3_PushbackReadFirst ==
    [][ last'.op = "fgetc" =>
          /\ stream.unget # None =>
                /\ last'.ret = stream.unget[1]
                /\ "read" \notin {calls'[i] : i \in 1..Len(calls')}
                /\ stream' = [stream EXCEPT !.unget = None]
                /\ sys' = sys
          /\ (last.op = "ungetc" /\ IsByte(last.arg[1]) /\ last.ret # EOF) =>
                last'.ret = last.arg[1]
          /\ (stream.unget = None /\ last'.ret # EOF) =>
                /\ stream'.unget = None
                /\ last'.ret = IF stream.read_pos < stream.read_size
                               THEN stream.read_buf[stream.read_pos + 1]
                               ELSE sys.content[sys.pos + 1]
      ]_vars

\* C3 happens: a read returned a pushed-back newline that the storage does not
\* hold, with unconsumed bytes in the read buffer.
C3_Witness ==
    /\ last.op = "fgetc"
    /\ last.ret = NL
    /\ last.was.unget = Some(NL)
    /\ last.was.buffered > 0
    /\ sys.content = <<97>>
    /\ stream.unget = None

\* C4: ungetc of a byte stores it and returns it exactly when the pushback
\* slot is empty; with a byte pending it returns EOF, sets errno to EIO and
\* changes nothing else.
C4_UngetcOnlyWhenEmpty ==
    [][ (last'.op = "ungetc" /\ IsByte(last'.arg[1])) =>
          IF stream.unget = None
          THEN /\ last'.ret = last'.arg[1]
               /\ stream' = [stream EXCEPT !.unget = Some(last'.arg[1])]
               /\ sys' = sys
          ELSE /\ last'.ret = EOF
               /\ stream' = stream
               /\ sys' = [sys EXCEPT !.errno = "EIO"]
      ]_vars

\* C4 happens: a second ungetc failed and the byte pushed first is pending.
C4_Witness ==
    /\ last.op = "ungetc"
    /\ last.arg = <<97>>
    /\ last.ret = EOF
    /\ last.was.unget = Some(NL)
    /\ stream.unget = Some(NL)
    /\ sys.errno = "EIO"

\* C5: the cursors of a stream that exists stay inside its read buffer:
\* 0 <= read_pos <= read_size <= read_buf.len().
C5_CursorsWithinBuffer ==
    stream.state = "open" =>
        /\ 0 <= stream.read_pos
        /\ stream.read_pos <= stream.read_size
        /\ stream.read_size <= Len(stream.read_buf)

\* C6: ftello returns the platform's position minus the number of fetched,
\* unconsumed bytes when the platform's position query works and -1 when it
\* fails, and changes no field of the stream.
C6_TelloIsLogicalPosition ==
    [][ last'.op = "ftello" =>
          /\ stream' = stream
          /\ sys'.pos = sys.pos
          /\ last'.ret = IF LseekWorks THEN Tell ELSE -1
      ]_vars

\* C6 happens: ftello ran after a short read left unconsumed bytes.
C6_Witness ==
    /\ last.op = "ftello"
    /\ stream.read_size < Len(stream.read_buf)
    /\ stream.read_pos < stream.read_size
    /\ sys.pos < Len(sys.content)
    /\ last.ret = sys.pos - (stream.read_size - stream.read_pos)
    /\ last.ret >= 0

\* C7: with no write pending, when ftello would report p >= 0, fseeko by 0
\* from SEEK_CUR succeeds and ftello would report p again.
C7_SeekZeroKeepsPosition ==
    [][ ( /\ last'.op = "fseeko"
          /\ last'.arg = <<0, "SEEK_CUR">>
          /\ stream.writer = <<>>
          /\ LseekWorks
          /\ Tell >= 0 ) =>
          /\ last'.ret = 0
          /\ LseekWorks'
          /\ Tell' = Tell
      ]_vars

\* C7 happens: a seek by zero succeeded on a stream that held unconsumed bytes
\* and left the platform's offset inside the storage.
C7_Witness ==
    /\ last.op = "fseeko"
    /\ last.arg = <<0, "SEEK_CUR">>
    /\ last.ret = 0
    /\ last.was.buffered > 0
    /\ sys.pos > 0
    /\ sys.pos < Len(sys.content)

\* C8: a successful fseeko, whatever its whence, leaves the cursors at 0, the
\* pushback slot empty and the EOF and error flags clear.
C8_SeekResetsStream ==
    (last.op = "fseeko" /\ last.ret = 0) =>
        /\ stream.read_pos = 0
        /\ stream.read_size = 0
        /\ stream.unget = None
        /\ stream.flags \cap {"F_EOF", "F_ERR"} = {}

\* C8 happens: a seek succeeded on a stream with unconsumed bytes and a
\* pushed-back byte.
C8_Witness ==
    /\ last.op = "fseeko"
    /\ last.ret = 0
    /\ last.was.buffered > 0
    /\ last.was.unget # None

\* The places of call in the calls an entry point issued.
Places(cs, call) == {i \in 1..Len(cs) : cs[i] = call}

\* C9: in fseeko and in freopen the writer's flush is called, and the pending
\* bytes it sends are written, before the platform seek and before dup2; when
\* the flush in fseeko fails, fseeko returns -1, issues no platform seek and
\* changes nothing of the stream but the error flag it sets.
C9_FlushBeforeSeekAndDup ==
    [][ last'.op \in {"fseeko", "freopen"} =>
          /\ \A i \in Places(calls', "lseek") \cup Places(calls', "dup2") :
                /\ \E j \in Places(calls', "flush") : j < i
                /\ stream.writer # <<>> =>
                      \E j \in Places(calls', "write") : j < i
          /\ (last'.op = "fseeko" /\ stream'.writer # <<>>) =>
                /\ last'.ret = -1
                /\ Places(calls', "lseek") = {}
                /\ stream' = [stream EXCEPT !.flags = @ \cup {"F_ERR"}]
                /\ sys'.pos = sys.pos
      ]_vars

\* C9 happens: the flush in fseeko failed on a stream with a pushed-back byte
\* and unconsumed bytes, which are all still there.
C9_Witness ==
    /\ last.op = "fseeko"
    /\ last.ret = -1
    /\ calls = <<"lock", "flush", "write", "unlock">>
    /\ last.was.unget # None
    /\ last.was.buffered > 0
    /\ Staged(stream) = last.was
    /\ stream.writer # <<>>
    /\ "F_ERR" \in stream.flags

\* The bytes of a destination that are not the terminator.
DataOf(out) == SelectSeq(out, LAMBDA b : b # 0)

\* C10: fgets with capacity N stores at most N bytes, of which at most N - 1
\* are data bytes, and nothing when N = 0.
C10_FgetsWithinCapacity ==
    last.op = "fgets" =>
        /\ Len(last.out) <= last.arg[1]
        /\ last.arg[1] >= 1 => Len(DataOf(last.out)) <= last.arg[1] - 1
        /\ last.arg[1] = 0 => last.out = <<>>

\* C10 happens: fgets filled the destination from data with no newline in
\* its first N - 1 bytes.
C10_Witness ==
    /\ last.op = "fgets"
    /\ last.arg = <<3>>
    /\ last.out = <<97, 97, 0>>
    /\ sys.content = <<97, 97, NL>>

\* fgets kept a place for the terminator and stored it: every return of fgets
\* but the one on a failed read (mod.rs:323) goes through mod.rs:348-351.
Terminated(out) == out # <<>> /\ out[Len(out)] = 0

\* C11: fgets returns null exactly when it stored no data byte in the
\* destination; a pushed-back byte that fgets stored counts as a data byte.
C11_NullIffNothingWritten ==
    last.op = "fgets" => (last.ret = 0 <=> DataOf(last.out) = <<>>)

\* C12: fgets with capacity >= 1 stores a terminator after the bytes it
\* stored on every return path, a failed read included; and once a byte
\* fetched from the source is in the destination, fgets returns the
\* destination, whether or not a later read fails.  (The second part is
\* stated for calls that found no pushed-back byte; C11 is about those that
\* did.)
C12_ReadErrorKeepsLine ==
    (last.op = "fgets" /\ last.arg[1] >= 1) =>
        /\ Terminated(last.out)
        /\ (DataOf(last.out) # <<>> /\ last.was.unget = None) => last.ret = 1

\* C13: fgets with room for a line, on an empty source with nothing pushed
\* back, returns null and stores nothing in the destination, so that a
\* destination of non-zero bytes is as it was.
C13_EmptySourceWritesNothing ==
    ( /\ last.op = "fgets"
      /\ last.arg = <<MaxCap>>
      /\ last.was.unget = None
      /\ sys.content = <<>> ) =>
        /\ last.ret = 0
        /\ last.out = <<>>

\* C14: an fgets that met no failed read stores the pushed-back byte it took,
\* then the source bytes from the logical position on, in order, and one
\* terminator; it consumes exactly the source bytes it copied; and it stops
\* at the first newline of the source, or with N - 1 data bytes, or at the
\* end of the source.  fgetc with nothing pushed back delivers and consumes
\* the one byte at the logical position.
C14_FgetsDeliversLine ==
    [][ /\ (last'.op = "fgets" /\ (last'.arg[1] = 0 \/ Terminated(last'.out))) =>
             LET N    == last'.arg[1]
                 data == DataOf(last'.out)
                 took == N >= 2 /\ stream.unget # None
                 src  == IF took THEN Tail(data) ELSE data
             IN  /\ N >= 1 => last'.out = Append(data, 0)
                 /\ took => data[1] = stream.unget[1]
                 /\ src = SubSeq(sys.content, Tell + 1, Tell + Len(src))
                 /\ Tell' = Tell + Len(src)
                 /\ \A i \in 1..(Len(src) - 1) : src[i] # NL
                 /\ \/ src # <<>> /\ src[Len(src)] = NL
                    \/ Len(data) = (IF N >= 1 THEN N - 1 ELSE 0)
                    \/ Tell' >= Len(sys.content)
        /\ (last'.op = "fgetc" /\ stream.unget = None /\ last'.ret # EOF) =>
             /\ Tell < Len(sys.content)
             /\ last'.ret = sys.content[Tell + 1]
             /\ Tell' = Tell + 1
      ]_vars

\* C14 happens: fgets put a line together from two platform reads, one byte
\* each, and stopped after the newline.
C14_Witness ==
    /\ last.op = "fgets"
    /\ last.arg = <<MaxCap>>
    /\ last.ret = 1
    /\ last.out = <<97, NL, 0>>
    /\ sys.content = <<97, NL>>
    /\ calls = <<"lock", "read", "read", "unlock">>

\* The bytes the stream has taken from its writers, in the order they were
\* written: those in the storage, then those the writer still holds.  (A
\* stream that is only written to, from the start of an empty file.)
Stored == sys.content \o stream.writer

C16_PermanentNeverFreed ==
    [][ last'.op = "fclose" =>
          /\ Cardinality(Places(calls', "close")) = 1
          /\ IF "F_PERM" \in stream.flags
             THEN /\ stream'.state = "open"
                  /\ "F_PERM" \in stream'.flags
                  /\ ~mutex'
                  /\ Callable'
             ELSE stream'.state = "freed"
      ]_vars

\* C16 happens: after fclose(stdout) a later fwrite took the lock of stdout
\* and ran (the descriptor is closed, so its bytes wait in the writer).
C16_Witness ==
    /\ last.op = "fwrite"
    /\ "F_PERM" \in stream.flags
    /\ ~sys.fd_open
    /\ stream.state = "open"
    /\ calls = <<"lock", "write", "unlock">>
    /\ ~mutex

\* Thread t holds the stream's lock through flockfile or ftrylockfile, and is
\* in no entry point that took it.
HoldsExplicitly(t) == hold[t] /\ pc[t] = "idle"

\* C17: while a thread holds the stream's lock through flockfile, the only
\* bytes that join the stream's bytes are those of its own putc_unlocked
\* calls, each at the end: no entry point that takes the lock (fputc, and
\* fputs and fwrite as puts calls them) runs in another thread meanwhile.
\* (The newline puts writes through putchar_unlocked, with no lock, is what
\* C2 is about and is not counted here.)
C17_UnlockedWritesContiguous ==
    [][ \A t \in Threads :
          (HoldsExplicitly(t) /\ HoldsExplicitly(t)' /\ Stored' # Stored) =>
             \/ /\ access' = [t |-> t, op |-> "putc_unlocked", locked |-> TRUE]
                /\ last'.op = "putc_unlocked"
                /\ Stored' = Stored \o last'.arg
             \/ \E u \in Threads \ {t} :
                   pc[u] = "puts_newline" /\ pc'[u] = "idle"
      ]_vars

\* C17 happens: a thread that holds the lock through flockfile has written
\* two bytes with putc_unlocked, and both are in the storage, in order.
C17_Witness ==
    /\ \E t \in Threads : HoldsExplicitly(t) /\ access.t = t
    /\ last.op = "putc_unlocked"
    /\ access.op = "putc_unlocked"
    /\ sys.content = <<97, 97>>
    /\ stream.writer = <<>>
    /\ calls = <<"write">>

\* C18: pclose on a stream with no child id returns -1 with ECHILD, calls
\* neither flush, close nor waitpid, and leaves the stream as it was, its
\* lock free; on a popen stream it takes the id, closes the stream through
\* fclose and only then calls waitpid, once, and returns the wait status, or
\* -1 (with waitpid's error) when waitpid fails.
C18_PcloseNeedsChild ==
    [][ last'.op = "pclose" =>
          IF stream.pid = None
          THEN /\ last'.ret = -1
               /\ sys' = [sys EXCEPT !.errno = "ECHILD"]
               /\ stream' = stream
               /\ ~mutex'
               /\ calls' = <<"lock", "unlock">>
          ELSE /\ stream'.pid = None
               /\ stream'.state = "freed"
               /\ Cardinality(Places(calls', "waitpid")) = 1
               /\ Cardinality(Places(calls', "close")) = 1
               /\ \A i \in Places(calls', "flush") \cup Places(calls', "close") :
                     \A j \in Places(calls', "waitpid") : i < j
               /\ last'.ret \in {-1, 0, 256}
               /\ last'.ret = -1 => sys'.errno = "ECHILD"
      ]_vars

\* C18 happens: pclose was called on a stream fopen returned, which is still
\* open and holds the byte written before.
C18_Witness ==
    /\ last.op = "pclose"
    /\ last.ret = -1
    /\ stream.state = "open"
    /\ stream.pid = None
    /\ stream.writer = <<97>>
    /\ sys.fd_open
    /\ sys.errno = "ECHILD"

\* C19: with size or count zero fread and fwrite return 0, take no lock and
\* change nothing.  Otherwise fread stores the bytes at the logical position,
\* in order, consumes what it stored, stops short of size * count only at
\* the end of the source or on a failed read, and returns bytes / size;
\* fwrite hands over a leading part of its bytes, all of them unless a write
\* failed, and returns bytes / size.  A started element is not counted.
C19_BlockTransferCounts ==
    [][ /\ (last'.op \in {"fread", "fwrite"} /\ last'.arg[Len(last'.arg)] = 0) =>
             /\ last'.ret = 0
             /\ <<stream', sys', mutex'>> = <<stream, sys, mutex>>
             /\ calls' = <<>>
        /\ (last'.op \in {"fread", "fwrite"} /\ last'.arg[Len(last'.arg) - 1] = 0) =>
             /\ last'.ret = 0
             /\ <<stream', sys', mutex'>> = <<stream, sys, mutex>>
             /\ calls' = <<>>
        /\ (last'.op = "fread" /\ last'.arg[1] > 0 /\ last'.arg[2] > 0) =>
             LET size  == last'.arg[1]
                 total == size * last'.arg[2]
                 got   == last'.out
             IN  /\ Len(got) <= total
                 /\ last'.ret = Len(got) \div size
                 /\ got = SubSeq(sys.content, Tell + 1, Tell + Len(got))
                 /\ Tell' = Tell + Len(got)
                 /\ Len(got) < total =>
                       \/ Tell' >= Len(sys.content)
                       \/ "F_ERR" \in stream'.flags
        /\ (last'.op = "fwrite" /\ last'.arg[2] > 0 /\ last'.arg[3] > 0) =>
             LET size  == last'.arg[2]
                 total == size * last'.arg[3]
             IN  \E k \in 0..total :
                    /\ Stored' = Stored \o SubSeq(last'.arg[1], 1, k)
                    /\ last'.ret = k \div size
                    /\ k < total => "F_ERR" \in stream'.flags
      ]_vars

\* C19 happens: fread of one element of two bytes found one byte: it stored
\* and consumed the byte and returned 0.
C19_Witness ==
    /\ last.op = "fread"
    /\ last.arg = <<2, 1>>
    /\ last.ret = 0
    /\ last.out = <<97>>
    /\ sys.content = <<97>>
    /\ Tell = 1

\* The stream as fopen returns it for reading, nothing read yet.
Fresh ==
    /\ stream = NewFILE(ModeFlags("r"), None)
    /\ sys.pos = 0
    /\ sys.fd_open

\* The round trip of C20 for the element sizes in sizes: what fwrite reports
\* as written in full joins the end of the stored bytes; a flush or an
\* fclose that succeeds leaves all of them in the storage; and an fread of
\* count elements of size bytes on a stream newly opened on that storage,
\* with size * count bytes in it and no failing read, returns count and
\* stores the first size * count bytes of the storage, in order, however the
\* platform splits the reads.
RoundTrip(sizes) ==
    /\ (last'.op = "fwrite" /\ last'.arg[2] \in sizes
          /\ last'.ret = last'.arg[3]) =>
         Stored' = Stored \o SubSeq(last'.arg[1], 1, last'.arg[2] * last'.arg[3])
    /\ (last'.op \in {"fflush", "fclose"} /\ last'.ret = 0) =>
         /\ sys'.content = Stored
         /\ stream'.writer = <<>>
    /\ (last'.op = "fread" /\ Fresh /\ last'.arg[1] \in sizes
          /\ last'.arg[1] * last'.arg[2] <= Len(sys.content)
          /\ "F_ERR" \notin stream'.flags) =>
         /\ last'.ret = last'.arg[2]
         /\ last'.out = SubSeq(sys.content, 1, last'.arg[1] * last'.arg[2])
         /\ sys'.content = sys.content

Latched(f) == f.flags \cap {"F_EOF", "F_ERR"}

\* No step of an entry point outside clearing takes a set flag away, and
\* feof and ferror report the flags as they are.
FlagsKept(clearing) ==
    /\ last'.op \notin clearing => Latched(stream) \subseteq Latched(stream')
    /\ last'.op = "feof" => (last'.ret # 0 <=> "F_EOF" \in stream.flags)
    /\ last'.op = "ferror" => (last'.ret # 0 <=> "F_ERR" \in stream.flags)
    /\ last'.op = "clearerr" => Latched(stream') = {}

\* C21 as stated: a set flag stays set after every operation but clearerr.
C21_ClearedOnlyByClearerr == [][FlagsKept({"clearerr"})]_vars

\* C21, amended: a set flag stays set until clearerr or a successful fseeko
\* (fseek, rewind, fsetpos); a failing fseeko and every fgetc, fill_buf,
\* fgets, fread, fputc, fflush, ungetc, ftello and setvbuf keep it, and feof
\* and ferror report it as non-zero for as long as it is set.
C21_FlagsLatched ==
    [][ /\ FlagsKept({"clearerr", "fseeko"})
        /\ (last'.op = "fseeko" /\ last'.ret # 0) =>
              Latched(stream) \subseteq Latched(stream')
      ]_vars

\* C21 happens: both flags are set, one by a read at the end of the file and
\* one by a failed flush, and ferror has just reported the error, after the
\* calls since.
C21_Witness ==
    /\ last.op = "ferror"
    /\ last.ret # 0
    /\ Latched(stream) = {"F_EOF", "F_ERR"}
    /\ stream.writer # <<>>
    /\ stream.unget # None
    /\ "F_SVB" \in stream.flags

\* How many times an entry point issued call.
Count(cs, call) == Cardinality(Places(cs, call))

\* C22: an entry point called with the stream's lock free never waits for a
\* lock its own thread holds, and when it returns the stream's lock is free
\* if the stream still exists: every lock it took is matched by an unlock,
\* but for the one lock fclose takes of a stream it deallocates.
C22_LockReleasedOnReturn ==
    [][ (last'.op # last.op \/ calls' # calls \/ stream' # stream) =>
          /\ stream'.state # "waiting"
          /\ stream'.state = "open" => ~mutex'
          /\ Count(calls', "lock") =
                Count(calls', "unlock") + (IF stream'.state = "freed" THEN 1 ELSE 0)
      ]_vars

\* C22 happens: freopen of a permanent stream with a path failed after its
\* flush failed too; it unlocked the stream, fclose locked and unlocked it
\* again, and the lock is free.
C22_Witness ==
    /\ last.op = "freopen"
    /\ last.ret = 0
    /\ "F_PERM" \in stream.flags
    /\ "F_ERR" \in stream.flags
    /\ stream.state = "open"
    /\ Count(calls, "lock") = 2
    /\ Count(calls, "unlock") = 2
    /\ ~mutex

\* C23: a freopen with a path that succeeds returns the stream it was given,
\* still in existence, with the permanent flag it had and otherwise the
\* flags of the newly opened stream; the temporary stream is closed once and
\* the stream's own descriptor is not closed.  One that fails returns null
\* after closing the stream's descriptor once, through fclose, which
\* deallocates the stream unless it is permanent, and after closing the
\* temporary stream if there was one.
C23_FreopenMergesFlags ==
    [][ (last'.op = "freopen" /\ last'.arg[1] # None) =>
          IF last'.ret = 1
          THEN /\ stream'.state = "open"
               /\ stream'.flags =
                     (stream.flags \cap {"F_PERM"}) \cup ModeFlags(last'.arg[2])
               /\ Count(calls', "close") = 0
               /\ Count(calls', "close_new") = 1
               /\ sys'.fd_open
          ELSE /\ last'.ret = 0
               /\ Count(calls', "close") = 1
               /\ ~sys'.fd_open
               /\ stream'.state = "freed" <=> "F_PERM" \notin stream.flags
               /\ Count(calls', "close_new") = Count(calls', "dup2")
               /\ \A i \in Places(calls', "close_new") :
                     \A j \in Places(calls', "close") : i < j
      ]_vars

\* C23 happens: freopen of a permanent stream succeeded although its flush
\* failed: the error flag the flush latched is gone, the flags are the
\* permanent one and those of a stream opened for reading.
C23_Witness ==
    /\ last.op = "freopen"
    /\ last.arg[1] # None
    /\ last.ret = 1
    /\ stream.writer # <<>>
    /\ stream.flags = {"F_PERM"} \cup ModeFlags("r")
    /\ sys.content = <<NL, 97>>
    /\ Count(calls, "dup2") = 1

\* What fill_buf and consume do to the cursors, the flags and the handle in
\* one step.
FillBufContract ==
    LET empty == stream.read_pos = stream.read_size
        got   == SubSeq(sys.content, sys.pos + 1, sys'.pos)
    IN  /\ Count(calls', "read") = (IF empty THEN 1 ELSE 0)
        /\ IF last'.ret # 0
           THEN /\ empty
                /\ "F_ERR" \in stream'.flags
                /\ stream'.read_pos = stream.read_pos
                /\ stream'.read_size = stream.read_size
           ELSE /\ last'.out = Slice(stream'.read_buf, stream'.read_pos,
                                     stream'.read_size)
                /\ IF empty
                   THEN /\ stream'.read_pos = 0
                        /\ stream'.read_size = Len(got)
                        /\ last'.out = got
                        /\ stream'.flags =
                              (IF got = <<>> THEN stream.flags \cup {"F_EOF"}
                               ELSE stream.flags)
                   ELSE /\ stream'.read_pos = stream.read_pos
                        /\ stream'.read_size = stream.read_size
                        /\ stream'.flags = stream.flags

ConsumeContract ==
    /\ stream'.read_pos = Min(stream.read_pos + last'.arg[1], stream.read_size)
    /\ stream'.read_size = stream.read_size
    /\ Count(calls', "read") = 0

\* C24: fill_buf reads from the handle exactly once when read_pos = read_size
\* and not at all otherwise; zero bytes read latch F_EOF and give an empty
\* range without an error, a failing read latches F_ERR, is propagated and
\* leaves the cursors alone, n > 0 bytes read set read_pos = 0 and
\* read_size = n; what it returns is the range [read_pos, read_size) of the
\* buffer.  consume(n) adds n to read_pos, clamped to read_size.
C24_FillBufConsume ==
    [][ /\ last'.op = "fill_buf" => FillBufContract
        /\ last'.op = "consume" => ConsumeContract
      ]_vars

\* C24 happens: with the error flag latched by an earlier failure, a fill_buf
\* on an empty range at the end of the file made one read, got nothing and
\* latched the end of the file, returning the empty range.
C24_Witness ==
    /\ last.op = "fill_buf"
    /\ last.ret = 0
    /\ last.out = <<>>
    /\ Count(calls, "read") = 1
    /\ sys.pos = Len(sys.content)
    /\ sys.pos > 0
    /\ stream.read_pos = 0
    /\ stream.read_size = 0
    /\ {"F_EOF", "F_ERR"} \subseteq stream.flags

\* The child's descriptors as the shell must find them: its standard input
\* (the parent writes) or standard output (the parent reads) names the pipe's
\* other end, and neither descriptor pipe returned is open.
ChildWired(c) ==
    /\ IF c.write THEN c.fds[0] = "pipe_r" ELSE c.fds[1] = "pipe_w"
    /\ c.fds[c.pipes[1]] = "closed"
    /\ c.fds[c.pipes[2]] = "closed"

\* The parent after a popen that returned a stream: the end it does not use
\* is closed, the stream's descriptor is the other end, open, and the stream
\* carries the child's process id.
ParentWired(f, p) ==
    LET c == p.child
    IN  /\ p.fd = (IF c.write THEN c.pipes[2] ELSE c.pipes[1])
        /\ p.fd_open
        /\ p.fds[p.fd] = (IF c.write THEN "pipe_w" ELSE "pipe_r")
        /\ p.fds[IF c.write THEN c.pipes[1] ELSE c.pipes[2]] = "closed"
        /\ f.state = "open"
        /\ f.pid = Some(1)

\* C25: when the child popen created is about to execute the shell, its
\* standard input (mode w) or standard output (mode r) names the pipe and
\* both descriptors of the pipe are closed; when popen returns a stream, the
\* parent has closed the end it does not use and the stream wraps the other
\* end and carries the child's process id.
C25_PopenWiresPipe ==
    [][ /\ (sys.child.pc = "close1" /\ sys'.child.pc = "execv") =>
              ChildWired(sys'.child)
        /\ (stream.state = "freed" /\ last'.op = "popen" /\ last'.ret = 1) =>
              ParentWired(stream', sys')
      ]_vars

\* last is a freopen with a path that returned the stream.
Reopened(l) == l.op = "freopen" /\ l.arg[1] # None /\ l.ret = 1

\* C26: when a freopen with a path returns the stream, nothing fetched from
\* the old target is left in it: read_pos = read_size and the pushback slot
\* is empty; a fgetc that follows and delivers a byte delivers the first byte
\* of the new target.
C26_ReopenDropsStaleBytes ==
    [][ /\ (last'.op = "freopen" /\ Reopened(last')) =>
              /\ stream'.read_pos = stream'.read_size
              /\ stream'.unget = None
        /\ (Reopened(last) /\ last'.op = "fgetc" /\ last'.ret # EOF) =>
              LET target == Opened(last.arg[1][1], last.arg[2])
              IN  /\ target # <<>>
                  /\ last'.ret = target[1]
      ]_vars

====
